---- MODULE Spec2Model ----
(***************************************************************************)
(* A model of canvas_bulk_download.py: the filename sanitizer, the bounded *)
(* concurrent downloader (process_files / download_file on a thread pool   *)
(* of MAX_THREADS workers), the recursive folder walk, the per-course      *)
(* processor with its folder pass and module pass, and the top-level loop  *)
(* over the enrolled courses.                                              *)
(*                                                                         *)
(* Names are sequences of one-character strings, paths are sequences of    *)
(* names.  The Canvas API, requests and the filesystem are the             *)
(* environment: every call into them picks its outcome nondeterministically*)
(* among the outcomes the libraries document (a value, Unauthorized,       *)
(* ResourceDoesNotExist, or any other exception, written "Error").         *)
(***************************************************************************)
EXTENDS Integers, Sequences, FiniteSets, TLC

\* ---------------------------------------------------------------- bounds
NumCourses == 2
RootFiles == 3
MaxLen == 3

\* ------------------------------------------------------ program constants
MAX_THREADS == 2

\* -------------------------------------------------------------- sanitizer
\* \w of a Python 3 str pattern: letters, digits and the underscore.
WordChars == {"a", "b", "c", "d", "e", "f", "k", "m", "x", "y", "z", "Z", "7", "_"}

\* The characters the model draws names from: word characters, the four
\* other allow-listed characters, and characters outside the allow-list.
Alphabet == {"a", "Z", "7", "_", "-", ".", " ", "/", ":", "?"}

\* The character class [^\w\-_\. ] : what the pattern matches.
MatchesPattern(c) == ~(c \in WordChars \/ c = "-" \/ c = "_" \/ c = "." \/ c = " ")

RECURSIVE SubCollapsing(_)
\* re.sub with the pattern quantified by + : a run of matches becomes one "_".
SubCollapsing(s) ==
    IF s = <<>> THEN <<>>
    ELSE IF MatchesPattern(Head(s))
         THEN IF Len(s) > 1 /\ MatchesPattern(s[2])
              THEN SubCollapsing(Tail(s))
              ELSE <<"_">> \o SubCollapsing(Tail(s))
         ELSE <<Head(s)>> \o SubCollapsing(Tail(s))

RECURSIVE ReSub(_)
\* re.sub(pattern, "_", s): scan left to right, each match replaced by "_".
ReSub(s) ==
    IF s = <<>> THEN <<>>
    ELSE (IF MatchesPattern(Head(s)) THEN <<"_">> ELSE <<Head(s)>>) \o ReSub(Tail(s))

sanitize_filename(name) == ReSub(name)

\* os.path.join(dir, name) for a name without a separator.
Join(dir, name) == Append(dir, name)

\* ------------------------------------------------------------------ world
\* The Canvas account the run sees: one course with a deep folder tree, or
\* NumCourses courses with a shallow one.
Accounts == { [n |-> 1, shape |-> "deep"], [n |-> NumCourses, shape |-> "shallow"] }

\* course.name: "k/", "kk/", ...
CourseName(c) == [i \in 1 .. c |-> "k"] \o <<"/">>

Root == << <<"canvas_downloads">> >>

CourseDir(c) == Join(Root, sanitize_filename(CourseName(c)))

\* folder.get_folders(): below "course files" (R), a deep course has A and B,
\* and A has A1; a shallow course has B.
Children(shape, f) ==
    CASE f = "R" /\ shape = "deep" -> <<"A", "B">>
      [] f = "R" /\ shape = "shallow" -> <<"B">>
      [] f = "A" -> <<"A1">>
      [] OTHER -> <<>>

\* subfolder.name
FolderName(f) ==
    CASE f = "A" -> <<"x", ":">>
      [] f = "A1" -> <<"y">>
      [] f = "B" -> <<"z", " ", "1">>
      [] OTHER -> <<"course files">>

\* file.display_name; Canvas keeps display names distinct within a folder.
DisplayName(i) ==
    CASE i = 1 -> <<"a", ".", "7">>
      [] i = 2 -> <<"b", ":", "c">>
      [] i = 3 -> <<"b", "?", "c">>
      [] i >= 4 /\ i <= 9 -> [k \in 1 .. i |-> "c"]
      [] i = 12 -> <<"e">>
      [] i = 13 -> <<"d", "-", "Z">>
      [] OTHER -> <<"m", "-", "f">>

\* folder.get_files(): the ids of the files the folder lists.
FolderFiles(shape, f) ==
    CASE f = "R" /\ shape = "deep" -> [i \in 1 .. RootFiles |-> i]
      [] f = "R" /\ shape = "shallow" -> <<1>>
      [] f = "A1" -> <<12>>
      [] f = "B" /\ shape = "deep" -> <<13>>
      [] OTHER -> <<>>

\* module.name, in the order of course.get_modules(); the second module of a
\* deep course is named like the first file of its root folder.
ModuleNames(shape) ==
    IF shape = "deep"
    THEN << <<"m", "/", "2">>, <<"a", ".", "7">> >>
    ELSE << <<"m", "/", "2">> >>

\* module.get_module_items(): item.type and item.content_id.
ModuleItems(shape, m) ==
    IF shape = "deep" /\ m = 1
    THEN << [type |-> "File", content_id |-> 1],
            [type |-> "Page", content_id |-> 0],
            [type |-> "File", content_id |-> 21] >>
    ELSE << [type |-> "File", content_id |-> 1] >>

\* file.url: falsy, starting with "http", or any other non-empty string.
UrlKinds == {"none", "http", "odd"}

Excs == {"Unauthorized", "ResourceDoesNotExist", "Error"}

\* ------------------------------------------------------------------ state
VARIABLES
    account,      \* the Canvas account: [n, shape]
    pc,           \* where the main thread is
    level,        \* the innermost try block enclosing the main thread
    exc,          \* the exception being raised, or "none"
    courseQ,      \* course_ids not yet passed to download_course_files
    cur,          \* the course_id of the running download_course_files call
    fsDirs,       \* the directories on disk (paths)
    fsFiles,      \* the regular files on disk (paths)
    stack,        \* the download_folder_contents frames: [folder, dir, idx]
    mi,           \* position in modules
    ii,           \* position in module_items
    pfFiles,      \* process_files: its files argument, [id, url] each
    pfIdx,        \* process_files: position of the for loop
    pfDir,        \* process_files: folder_dir
    pfRet,        \* process_files: its caller, "walk" or "item"
    tasks,        \* the futures not yet finished: [pool, seq, file, url, path, st]
    called,       \* history: the course ids download_course_files was called for
    caught,       \* history: the course ids whose call ended in its outer handler
    visited,      \* history: folders download_folder_contents was entered for
    unauthLogged, \* history: folders whose "Unauthorized access to folder" was printed
    otherRaised,  \* history: an exception other than Unauthorized was raised in the walk
    batched,      \* history: folders whose process_files call returned normally
    modPass,      \* history: "no", "started" (get_modules called), "listed"
    modListed,    \* history: get_module_items of the module last entered succeeded
    modReached,   \* history: items of that module whose File branch was entered
    itemUrl,      \* history: the url of the file an item was skipped for, or "-"
    bSkips,       \* history: "Skipping file with no URL" lines of this batch
    bRuns,        \* history: download_file executions started for this batch
    callApi,      \* history: an API call after get_course was made in this call
    callWrite,    \* history: makedirs or open was called in this call
    callDl,       \* history: a download task was submitted in this call
    existed,      \* history: os.path.exists(course_dir) was true in this call
    dirsAtCall,   \* history: fsDirs when this call began
    filesAtCall,  \* history: fsFiles when this call began
    sIn,          \* sanitizer: the input string
    sOut,         \* sanitizer: sanitize_filename(sIn)
    sOut2,        \* sanitizer: sanitize_filename(sOut)
    sanPc         \* sanitizer: "off", "in", "once", "twice"

ctl == <<pc, level, exc>>
mainv == <<account, courseQ, cur, called, caught>>
fsv == <<fsDirs, fsFiles>>
modv == <<mi, ii>>
pfv == <<pfFiles, pfIdx, pfDir, pfRet>>
hWalk == <<visited, unauthLogged, otherRaised, batched>>
hMod == <<modPass, modListed, modReached, itemUrl>>
hBatch == <<bSkips, bRuns>>
hCall == <<callApi, callWrite, callDl, existed, dirsAtCall, filesAtCall>>
sanv == <<sIn, sOut, sOut2, sanPc>>

vars == <<ctl, mainv, fsv, stack, modv, pfv, tasks, hWalk, hMod, hBatch, hCall, sanv>>

\* ------------------------------------------------------------ filesystem
\* os.path.exists(p)
PathExists(p) == p \in fsDirs \/ p \in fsFiles

\* os.makedirs(p, exist_ok=True) raises FileExistsError when p is a regular file.
MakedirsFails(p) == p \in fsFiles

\* open(p, "wb") raises IsADirectoryError when p is a directory.
OpenFails(p) == p \in fsDirs

\* ------------------------------------------------------------ thread pool
InFlight(p) == {t \in tasks : t.pool = p /\ t.st \in {"run", "write"}}

AllInFlight == {t \in tasks : t.st \in {"run", "write"}}

\* A worker of the pool whose limit is one too high.
WorkerFreeOffByOne(p) == Cardinality(InFlight(p)) <= MAX_THREADS

\* ThreadPoolExecutor(max_workers=MAX_THREADS): a worker thread of pool p is idle
\* (or may still be spawned).
WorkerFree(p) == Cardinality(InFlight(p)) < MAX_THREADS

\* The work queue of a pool is FIFO.
NextQueued(t) ==
    /\ t.st = "queued"
    /\ \A u \in tasks : (u.pool = t.pool /\ u.st = "queued") => u.seq >= t.seq

\* A caller that does not wait.
JoinReadyNoWait == TRUE

\* future.result() for every future, and the executor's shutdown(wait=True) on
\* leaving the with block: both block while a task of this pool is unfinished.
JoinReady == \A t \in tasks : t.pool # "cur"


\* ------------------------------------------------------------- exceptions
\* A body of download_folder_contents without its handler.
FolderCatchesNothing(e) == FALSE

\* except Unauthorized around the body of download_folder_contents.
FolderCatches(e) == e = "Unauthorized"

\* except ResourceDoesNotExist around one module item.
ItemCatches(e) == e = "ResourceDoesNotExist"

\* An outer handler without the catch-all clause.
CourseCatchesNamedOnly(e) == e \in {"Unauthorized", "ResourceDoesNotExist"}

\* except Unauthorized / ResourceDoesNotExist / Exception around the whole of
\* download_course_files.
CourseCatches(e) == e \in {"Unauthorized", "ResourceDoesNotExist", "Error"}

\* The frames left after the top frame returns to its caller, whose loop moves on.
PopReturn(stk) ==
    LET n == Len(stk) - 1
    IN  [k \in 1 .. n |-> IF k = n THEN [stk[k] EXCEPT !.idx = @ + 1] ELSE stk[k]]

Top == stack[Len(stack)]

\* ------------------------------------------------------------- main loop
\* __main__: makedirs("canvas_downloads") if missing, get_courses, reverse the ids.
MainStart ==
    /\ pc = "main_start"
    /\ fsDirs' = fsDirs \cup {Root}
    /\ \E r \in {"ok", "Error"} :
         IF r = "ok"
         THEN /\ courseQ' = [k \in 1 .. account.n |-> account.n + 1 - k]
              /\ pc' = "main_loop"
         ELSE /\ courseQ' = courseQ
              /\ pc' = "fatal"
    /\ UNCHANGED <<level, exc, account, cur, called, caught, fsFiles, stack, modv, pfv,
                   tasks, hWalk, hMod, hBatch, hCall, sanv>>

\* for course_id in course_ids: download_course_files(course_id)
MainNext ==
    /\ pc \in {"main_loop", "returned"}
    /\ courseQ # <<>>
    /\ cur' = Head(courseQ)
    /\ courseQ' = Tail(courseQ)
    /\ called' = called \cup {Head(courseQ)}
    /\ pc' = "get_course"
    /\ level' = "course"
    /\ mi' = 0 /\ ii' = 0
    /\ visited' = {} /\ unauthLogged' = {} /\ otherRaised' = FALSE /\ batched' = {}
    /\ modPass' = "no" /\ modListed' = FALSE /\ modReached' = {} /\ itemUrl' = "-"
    /\ callApi' = FALSE /\ callWrite' = FALSE /\ callDl' = FALSE /\ existed' = FALSE
    /\ dirsAtCall' = fsDirs /\ filesAtCall' = fsFiles
    /\ UNCHANGED <<exc, account, caught, fsv, stack, pfv, tasks, hBatch, sanv>>

\* The loop is exhausted.
MainDone ==
    /\ pc \in {"main_loop", "returned"}
    /\ courseQ = <<>>
    /\ pc' = "done"
    /\ UNCHANGED <<level, exc, mainv, fsv, stack, modv, pfv, tasks,
                   hWalk, hMod, hBatch, hCall, sanv>>

\* ------------------------------------------------- download_course_files
\* course = canvas.get_course(course_id)
GetCourse ==
    /\ pc = "get_course"
    /\ \E r \in {"ok"} \cup Excs :
         IF r = "ok"
         THEN /\ pc' = "check_dir" /\ exc' = exc
         ELSE /\ pc' = "raise" /\ exc' = r
    /\ UNCHANGED <<level, mainv, fsv, stack, modv, pfv, tasks,
                   hWalk, hMod, hBatch, hCall, sanv>>

\* A check that takes an empty directory for a missing one.
SkipsOnlyNonEmpty(dir) ==
    /\ dir \in fsDirs
    /\ \E f \in fsFiles : Len(f) > Len(dir) /\ SubSeq(f, 1, Len(dir)) = dir

\* if os.path.exists(course_dir)
SkipsCourse(dir) == PathExists(dir)

\* The course directory exists: print and return.
SkipExisting ==
    /\ pc = "check_dir"
    /\ SkipsCourse(CourseDir(cur))
    /\ existed' = PathExists(CourseDir(cur))
    /\ pc' = "returned"
    /\ level' = "main"
    /\ UNCHANGED <<exc, mainv, fsv, stack, modv, pfv, tasks, hWalk, hMod, hBatch,
                   callApi, callWrite, callDl, dirsAtCall, filesAtCall, sanv>>

\* os.makedirs(course_dir, exist_ok=True)
MakeCourseDir ==
    /\ pc = "check_dir"
    /\ ~SkipsCourse(CourseDir(cur))
    /\ existed' = PathExists(CourseDir(cur))
    /\ callWrite' = TRUE
    /\ IF MakedirsFails(CourseDir(cur))
       THEN /\ pc' = "raise" /\ exc' = "Error" /\ level' = level
            /\ fsDirs' = fsDirs
       ELSE /\ pc' = "get_folders" /\ exc' = exc /\ level' = "folders"
            /\ fsDirs' = fsDirs \cup {CourseDir(cur)}
    /\ UNCHANGED <<mainv, fsFiles, stack, modv, pfv, tasks, hWalk, hMod, hBatch,
                   callApi, callDl, dirsAtCall, filesAtCall, sanv>>

\* folders = course.get_folders(); root_folder = next(f for f in folders if
\* f.full_name == "course files"); download_folder_contents(root_folder, course_dir)
GetFolders ==
    /\ pc = "get_folders"
    /\ callApi' = TRUE
    /\ \E r \in {"ok", "missing"} \cup Excs :
         IF r = "ok"
         THEN /\ stack' = << [folder |-> "R", dir |-> CourseDir(cur), idx |-> 0] >>
              /\ visited' = visited \cup {"R"}
              /\ pc' = "get_files" /\ level' = "walk" /\ exc' = exc
         ELSE /\ stack' = stack /\ visited' = visited
              /\ pc' = "raise" /\ level' = level
              /\ exc' = IF r = "missing" THEN "Error" ELSE r
    /\ UNCHANGED <<mainv, fsv, modv, pfv, tasks, unauthLogged, otherRaised, batched,
                   hMod, hBatch, callWrite, callDl, existed, dirsAtCall, filesAtCall, sanv>>

\* ----------------------------------------------------------- process_files
\* Entering process_files(files, folder_dir): a new ThreadPoolExecutor; the
\* futures of earlier executors, if any were left unfinished, are not its own.
StartBatch(files, dir, ret) ==
    /\ pfFiles' = files
    /\ pfIdx' = 1
    /\ pfDir' = dir
    /\ pfRet' = ret
    /\ tasks' = {[t EXCEPT !.pool = "old"] : t \in tasks}
    /\ bSkips' = 0
    /\ bRuns' = 0
    /\ pc' = "pf_loop"

\* if not file.url: print("Skipping file with no URL"); continue
PfSkip ==
    /\ pc = "pf_loop"
    /\ pfIdx <= Len(pfFiles)
    /\ pfFiles[pfIdx].url = "none"
    /\ bSkips' = bSkips + 1
    /\ pfIdx' = pfIdx + 1
    /\ UNCHANGED <<ctl, mainv, fsv, stack, modv, pfFiles, pfDir, pfRet, tasks,
                   hWalk, hMod, bRuns, hCall, sanv>>

\* requests.head(file.url) for the size, the progress bar, executor.submit(...).
\* The probe runs on the calling thread, outside any try of process_files.
PfSubmit ==
    /\ pc = "pf_loop"
    /\ pfIdx <= Len(pfFiles)
    /\ pfFiles[pfIdx].url # "none"
    /\ \E r \in {"ok", "Error"} :
         IF r = "ok"
         THEN /\ tasks' = tasks \cup
                    { [pool |-> "cur", seq |-> pfIdx, file |-> pfFiles[pfIdx].id,
                       url |-> pfFiles[pfIdx].url,
                       path |-> Join(pfDir, sanitize_filename(DisplayName(pfFiles[pfIdx].id))),
                       st |-> "queued"] }
              /\ pfIdx' = pfIdx + 1
              /\ callDl' = TRUE
              /\ UNCHANGED <<pc, exc, otherRaised>>
         ELSE /\ pc' = "pf_raise"
              /\ exc' = "Error"
              /\ otherRaised' = (otherRaised \/ level = "walk")
              /\ UNCHANGED <<tasks, pfIdx, callDl>>
    /\ UNCHANGED <<level, mainv, fsv, stack, modv, pfFiles, pfDir, pfRet,
                   visited, unauthLogged, batched, hMod, hBatch,
                   callApi, callWrite, existed, dirsAtCall, filesAtCall, sanv>>

\* The for loop over files is exhausted.
PfLoopEnd ==
    /\ pc = "pf_loop"
    /\ pfIdx > Len(pfFiles)
    /\ pc' = "pf_join"
    /\ UNCHANGED <<level, exc, mainv, fsv, stack, modv, pfv, tasks,
                   hWalk, hMod, hBatch, hCall, sanv>>

\* for future in futures: future.result(), then the with block's shutdown.
PfJoin ==
    /\ pc = "pf_join"
    /\ JoinReady
    /\ pc' = "pf_ret"
    /\ UNCHANGED <<level, exc, mainv, fsv, stack, modv, pfv, tasks,
                   hWalk, hMod, hBatch, hCall, sanv>>

\* An exception leaves the with block: __exit__ runs shutdown(wait=True) first.
PfRaiseExit ==
    /\ pc = "pf_raise"
    /\ JoinReady
    /\ pc' = "pf_ret"
    /\ UNCHANGED <<level, exc, mainv, fsv, stack, modv, pfv, tasks,
                   hWalk, hMod, hBatch, hCall, sanv>>

\* Control is back in the caller of process_files; its locals are gone.
PfReturn ==
    /\ pc = "pf_ret"
    /\ IF exc # "none"
       THEN /\ pc' = "raise" /\ UNCHANGED <<level, ii>>
       ELSE IF pfRet = "walk"
            THEN /\ pc' = "get_subfolders" /\ UNCHANGED <<level, ii>>
            ELSE /\ pc' = "item_loop" /\ level' = "module" /\ ii' = ii + 1
    /\ pfFiles' = <<>> /\ pfIdx' = 0 /\ pfDir' = <<>> /\ pfRet' = "none"
    /\ bSkips' = 0 /\ bRuns' = 0
    /\ batched' = IF exc = "none" /\ pfRet = "walk"
                  THEN batched \cup {Top.folder}
                  ELSE batched
    /\ UNCHANGED <<exc, mainv, fsv, stack, mi, tasks, visited, unauthLogged, otherRaised,
                   hMod, hCall, sanv>>

\* ----------------------------------------------------------- download_file
\* A worker thread takes the next future off the queue and calls download_file.
TaskStart(t) ==
    /\ NextQueued(t)
    /\ WorkerFree(t.pool)
    /\ tasks' = (tasks \ {t}) \cup {[t EXCEPT !.st = "run"]}
    /\ bRuns' = IF t.pool = "cur" THEN bRuns + 1 ELSE bRuns
    /\ UNCHANGED <<ctl, mainv, fsv, stack, modv, pfv, hWalk, hMod, bSkips,
                   hCall, sanv>>

\* download_file up to open(dest_path, "wb"): the startswith("http") test,
\* requests.get, raise_for_status, open.  Every exception is caught and printed.
TaskRun(t) ==
    /\ t \in tasks
    /\ t.st = "run"
    /\ IF t.url # "http"
       THEN /\ tasks' = tasks \ {t}
            /\ UNCHANGED <<fsFiles, callWrite>>
       ELSE \E r \in {"ok", "fail"} :
              IF r = "fail"
              THEN /\ tasks' = tasks \ {t}
                   /\ UNCHANGED <<fsFiles, callWrite>>
              ELSE /\ callWrite' = TRUE
                   /\ IF OpenFails(t.path)
                      THEN /\ tasks' = tasks \ {t}
                           /\ fsFiles' = fsFiles
                      ELSE /\ tasks' = (tasks \ {t}) \cup {[t EXCEPT !.st = "write"]}
                           /\ fsFiles' = fsFiles \cup {t.path}
    /\ UNCHANGED <<ctl, mainv, fsDirs, stack, modv, pfv, hWalk, hMod, hBatch,
                   callApi, callDl, existed, dirsAtCall, filesAtCall, sanv>>

\* The chunks are written (or the stream breaks, which is caught), the file is
\* closed, and download_file returns: the future is done.
TaskFinish(t) ==
    /\ t \in tasks
    /\ t.st = "write"
    /\ tasks' = tasks \ {t}
    /\ UNCHANGED <<ctl, mainv, fsv, stack, modv, pfv, hWalk, hMod, hBatch,
                   hCall, sanv>>

\* ------------------------------------------------ download_folder_contents
\* Raising e from the body of download_folder_contents.
RaiseInWalk(e) ==
    /\ pc' = "raise"
    /\ exc' = e
    /\ otherRaised' = (otherRaised \/ e # "Unauthorized")

\* The File objects of a folder, each with the url the API reports for it.
Listing(ids, urls) == [k \in 1 .. Len(ids) |-> [id |-> ids[k], url |-> urls[k]]]

\* files = folder.get_files(); process_files(files, folder_dir)
GetFiles ==
    /\ pc = "get_files"
    /\ callApi' = TRUE
    /\ \E r \in {"ok"} \cup Excs :
         IF r = "ok"
         THEN /\ \E urls \in [1 .. Len(FolderFiles(account.shape, Top.folder)) -> UrlKinds] :
                   StartBatch(Listing(FolderFiles(account.shape, Top.folder), urls),
                              Top.dir, "walk")
              /\ UNCHANGED <<exc, otherRaised>>
         ELSE /\ RaiseInWalk(r)
              /\ UNCHANGED <<pfv, tasks, hBatch>>
    /\ UNCHANGED <<level, mainv, fsv, stack, modv, visited, unauthLogged, batched, hMod,
                   callWrite, callDl, existed, dirsAtCall, filesAtCall, sanv>>

\* subfolders = folder.get_folders()
GetSubfolders ==
    /\ pc = "get_subfolders"
    /\ callApi' = TRUE
    /\ \E r \in {"ok"} \cup Excs :
         IF r = "ok"
         THEN /\ pc' = "sub_loop" /\ UNCHANGED <<exc, otherRaised>>
         ELSE RaiseInWalk(r)
    /\ UNCHANGED <<level, mainv, fsv, stack, modv, pfv, tasks, visited, unauthLogged,
                   batched, hMod, hBatch, callWrite, callDl, existed, dirsAtCall,
                   filesAtCall, sanv>>

\* for subfolder in subfolders: makedirs(subfolder_dir);
\* download_folder_contents(subfolder, subfolder_dir)
EnterSubfolder ==
    /\ pc = "sub_loop"
    /\ Top.idx < Len(Children(account.shape, Top.folder))
    /\ LET sub == Children(account.shape, Top.folder)[Top.idx + 1]
           d == Join(Top.dir, sanitize_filename(FolderName(sub)))
       IN  /\ callWrite' = TRUE
           /\ IF MakedirsFails(d)
              THEN /\ RaiseInWalk("Error")
                   /\ UNCHANGED <<fsDirs, stack, visited>>
              ELSE /\ fsDirs' = fsDirs \cup {d}
                   /\ stack' = Append(stack, [folder |-> sub, dir |-> d, idx |-> 0])
                   /\ visited' = visited \cup {sub}
                   /\ pc' = "get_files"
                   /\ UNCHANGED <<exc, otherRaised>>
    /\ UNCHANGED <<level, mainv, fsFiles, modv, pfv, tasks, unauthLogged, batched, hMod,
                   hBatch, callApi, callDl, existed, dirsAtCall, filesAtCall, sanv>>

\* The top frame returns: to its caller's loop, or, for the root folder, to
\* download_course_files, whose folder pass is over.
ReturnFromFolder ==
    IF Len(stack) = 1
    THEN /\ stack' = <<>> /\ pc' = "get_modules" /\ level' = "modules"
    ELSE /\ stack' = PopReturn(stack) /\ pc' = "sub_loop" /\ level' = level

\* The loop over subfolders is exhausted.
FolderDone ==
    /\ pc = "sub_loop"
    /\ Top.idx >= Len(Children(account.shape, Top.folder))
    /\ ReturnFromFolder
    /\ UNCHANGED <<exc, mainv, fsv, modv, pfv, tasks, hWalk, hMod, hBatch,
                   hCall, sanv>>

\* An exception in the body of download_folder_contents: except Unauthorized
\* prints and returns; anything else leaves the frame.
UnwindFolder ==
    /\ pc = "raise"
    /\ level = "walk"
    /\ IF FolderCatches(exc)
       THEN /\ unauthLogged' = unauthLogged \cup {Top.folder}
            /\ exc' = "none"
            /\ ReturnFromFolder
       ELSE /\ stack' = SubSeq(stack, 1, Len(stack) - 1)
            /\ level' = IF Len(stack) = 1 THEN "folders" ELSE "walk"
            /\ UNCHANGED <<pc, exc, unauthLogged>>
    /\ UNCHANGED <<mainv, fsv, modv, pfv, tasks, visited, otherRaised, batched, hMod,
                   hBatch, hCall, sanv>>

\* except Unauthorized / except Exception around the folder pass.
CatchFolderPass ==
    /\ pc = "raise"
    /\ level = "folders"
    /\ exc' = "none"
    /\ pc' = "get_modules"
    /\ level' = "modules"
    /\ UNCHANGED <<mainv, fsv, stack, modv, pfv, tasks, hWalk, hMod, hBatch,
                   hCall, sanv>>

\* ------------------------------------------------------------- module pass
NumModules == Len(ModuleNames(account.shape))

ModuleDir(m) == Join(CourseDir(cur), sanitize_filename(ModuleNames(account.shape)[m]))

Items(m) == ModuleItems(account.shape, m)

\* modules = course.get_modules()
GetModules ==
    /\ pc = "get_modules"
    /\ callApi' = TRUE
    /\ visited' = {} /\ unauthLogged' = {} /\ otherRaised' = FALSE /\ batched' = {}
    /\ \E r \in {"ok"} \cup Excs :
         IF r = "ok"
         THEN /\ mi' = 1 /\ pc' = "mod_loop" /\ exc' = exc /\ modPass' = "listed"
         ELSE /\ mi' = mi /\ pc' = "raise" /\ exc' = r /\ modPass' = "started"
    /\ UNCHANGED <<level, mainv, fsv, stack, ii, pfv, tasks,
                   modListed, modReached, itemUrl, hBatch,
                   callWrite, callDl, existed, dirsAtCall, filesAtCall, sanv>>

\* for module in modules: os.makedirs(module_dir, exist_ok=True)
EnterModule ==
    /\ pc = "mod_loop"
    /\ mi <= NumModules
    /\ modListed' = FALSE /\ modReached' = {} /\ itemUrl' = "-"
    /\ callWrite' = TRUE
    /\ IF MakedirsFails(ModuleDir(mi))
       THEN /\ pc' = "raise" /\ exc' = "Error"
            /\ UNCHANGED <<level, fsDirs>>
       ELSE /\ pc' = "get_items" /\ level' = "module"
            /\ fsDirs' = fsDirs \cup {ModuleDir(mi)}
            /\ exc' = exc
    /\ UNCHANGED <<mainv, fsFiles, stack, modv, pfv, tasks, hWalk, modPass, hBatch,
                   callApi, callDl, existed, dirsAtCall, filesAtCall, sanv>>

\* The loop over modules is exhausted: download_course_files returns.
ModulesDone ==
    /\ pc = "mod_loop"
    /\ mi > NumModules
    /\ pc' = "returned"
    /\ level' = "main"
    /\ UNCHANGED <<exc, mainv, fsv, stack, modv, pfv, tasks, hWalk, hMod, hBatch,
                   hCall, sanv>>

\* module_items = module.get_module_items()
GetItems ==
    /\ pc = "get_items"
    /\ callApi' = TRUE
    /\ \E r \in {"ok"} \cup Excs :
         IF r = "ok"
         THEN /\ ii' = 1 /\ pc' = "item_loop" /\ exc' = exc /\ modListed' = TRUE
         ELSE /\ ii' = ii /\ pc' = "raise" /\ exc' = r /\ modListed' = modListed
    /\ UNCHANGED <<level, mainv, fsv, stack, mi, pfv, tasks, hWalk,
                   modPass, modReached, itemUrl, hBatch,
                   callWrite, callDl, existed, dirsAtCall, filesAtCall, sanv>>

\* for item in module_items: if item.type == "File": (enter the try)
ItemStep ==
    /\ pc = "item_loop"
    /\ ii <= Len(Items(mi))
    /\ IF Items(mi)[ii].type = "File"
       THEN /\ pc' = "get_file" /\ level' = "item" /\ ii' = ii
            /\ modReached' = modReached \cup {ii}
       ELSE /\ pc' = pc /\ level' = level /\ ii' = ii + 1
            /\ modReached' = modReached
    /\ itemUrl' = "-"
    /\ UNCHANGED <<exc, mainv, fsv, stack, mi, pfv, tasks, hWalk,
                   modPass, modListed, hBatch, hCall, sanv>>

\* The loop over module_items is exhausted: the next module.
ItemsDone ==
    /\ pc = "item_loop"
    /\ ii > Len(Items(mi))
    /\ mi' = mi + 1
    /\ pc' = "mod_loop"
    /\ level' = "modules"
    /\ itemUrl' = "-"
    /\ UNCHANGED <<exc, mainv, fsv, stack, ii, pfv, tasks, hWalk,
                   modPass, modListed, modReached, hBatch, hCall, sanv>>

\* The folder that lists a subfolder.
Parent(f) == IF f = "A1" THEN "A" ELSE "R"

RECURSIVE DirOf(_)
\* The folder_dir the walk of the running course passes for folder f.
DirOf(f) ==
    IF f = "R"
    THEN CourseDir(cur)
    ELSE Join(DirOf(Parent(f)), sanitize_filename(FolderName(f)))

\* The folders of the running course.
Folders == IF account.shape = "deep" THEN {"R", "A", "A1", "B"} ELSE {"R", "B"}

\* Folder g lists file f.
Lists(g, f) ==
    \E k \in 1 .. Len(FolderFiles(account.shape, g)) : FolderFiles(account.shape, g)[k] = f

\* Where the folder walk of the running course stores file f, if it lists it.
WalkPaths(f) ==
    {Join(DirOf(g), sanitize_filename(DisplayName(f))) : g \in {h \in Folders : Lists(h, f)}}

\* A module pass that leaves out the files the folder walk has stored.
DownloadsItemUnlessCovered(f, u) == u # "none" /\ WalkPaths(f) \cap fsFiles = {}

\* if file and file.url
DownloadsItem(f, u) == u # "none"

\* file = canvas.get_file(item.content_id); process_files([file], module_dir),
\* or print "No URL for file in module item".
GetFile ==
    /\ pc = "get_file"
    /\ callApi' = TRUE
    /\ LET f == Items(mi)[ii].content_id
       IN  \E r \in {"ok"} \cup Excs :
             IF r = "ok"
             THEN \E u \in UrlKinds :
                    IF DownloadsItem(f, u)
                    THEN /\ StartBatch(<< [id |-> f, url |-> u] >>, ModuleDir(mi), "item")
                         /\ UNCHANGED <<level, exc, ii, itemUrl>>
                    ELSE /\ pc' = "item_loop" /\ level' = "module" /\ ii' = ii + 1
                         /\ itemUrl' = u
                         /\ UNCHANGED <<exc, pfv, tasks, hBatch>>
             ELSE /\ pc' = "raise" /\ exc' = r
                  /\ UNCHANGED <<level, ii, itemUrl, pfv, tasks, hBatch>>
    /\ UNCHANGED <<mainv, fsv, stack, mi, hWalk, modPass, modListed, modReached,
                   callWrite, callDl, existed, dirsAtCall, filesAtCall, sanv>>

\* An exception while one module item is processed: except ResourceDoesNotExist
\* prints and the loop moves on; anything else leaves the loop over the items.
UnwindItem ==
    /\ pc = "raise"
    /\ level = "item"
    /\ IF ItemCatches(exc)
       THEN /\ exc' = "none" /\ pc' = "item_loop" /\ ii' = ii + 1
       ELSE UNCHANGED <<exc, pc, ii>>
    /\ level' = "module"
    /\ UNCHANGED <<mainv, fsv, stack, mi, pfv, tasks, hWalk, hMod, hBatch,
                   hCall, sanv>>

\* except Unauthorized / except Exception around one module's items.
CatchModule ==
    /\ pc = "raise"
    /\ level = "module"
    /\ exc' = "none"
    /\ mi' = mi + 1
    /\ pc' = "mod_loop"
    /\ level' = "modules"
    /\ UNCHANGED <<mainv, fsv, stack, ii, pfv, tasks, hWalk, hMod, hBatch,
                   hCall, sanv>>

\* except Unauthorized / except Exception around the module pass; the function
\* then returns.
CatchModulePass ==
    /\ pc = "raise"
    /\ level = "modules"
    /\ exc' = "none"
    /\ pc' = "returned"
    /\ level' = "main"
    /\ UNCHANGED <<mainv, fsv, stack, modv, pfv, tasks, hWalk, hMod, hBatch,
                   hCall, sanv>>

\* The outer handlers of download_course_files.  What they do not catch reaches
\* the loop of __main__, which has no handler: the process dies.
UnwindCourse ==
    /\ pc = "raise"
    /\ level = "course"
    /\ IF CourseCatches(exc)
       THEN /\ caught' = caught \cup {cur} /\ exc' = "none" /\ pc' = "returned"
       ELSE /\ caught' = caught /\ exc' = exc /\ pc' = "crashed"
    /\ level' = "main"
    /\ UNCHANGED <<account, courseQ, cur, called, fsv, stack, modv, pfv, tasks, hWalk,
                   hMod, hBatch, hCall, sanv>>

\* ------------------------------------------------------ sanitizer, alone
Strings == UNION {[1 .. n -> Alphabet] : n \in 0 .. MaxLen}

SanApply ==
    /\ sanPc = "in"
    /\ sOut' = sanitize_filename(sIn)
    /\ sanPc' = "once"
    /\ UNCHANGED <<ctl, mainv, fsv, stack, modv, pfv, tasks, hWalk, hMod, hBatch,
                   hCall, sIn, sOut2>>

SanAgain ==
    /\ sanPc = "once"
    /\ sOut2' = sanitize_filename(sOut)
    /\ sanPc' = "twice"
    /\ UNCHANGED <<ctl, mainv, fsv, stack, modv, pfv, tasks, hWalk, hMod, hBatch,
                   hCall, sIn, sOut>>

\* ------------------------------------------------------- specifications
\* Everything but the account, the disk and the program counter, before
\* __main__ runs.
InitRest ==
    /\ level = "main" /\ exc = "none"
    /\ courseQ = <<>> /\ cur = 0 /\ called = {} /\ caught = {}
    /\ stack = <<>> /\ mi = 0 /\ ii = 0
    /\ pfFiles = <<>> /\ pfIdx = 0 /\ pfDir = <<>> /\ pfRet = "none"
    /\ tasks = {}
    /\ visited = {} /\ unauthLogged = {} /\ otherRaised = FALSE /\ batched = {}
    /\ modPass = "no" /\ modListed = FALSE /\ modReached = {} /\ itemUrl = "-"
    /\ bSkips = 0 /\ bRuns = 0
    /\ callApi = FALSE /\ callWrite = FALSE /\ callDl = FALSE /\ existed = FALSE
    /\ dirsAtCall = {} /\ filesAtCall = {}

\* What an earlier run may have left of a course: nothing, its empty directory,
\* or its directory with one file in it.
Leftovers == {"absent", "empty", "partial"}

\* The script starts on a disk that earlier runs may have written to.
Init ==
    /\ pc = "main_start"
    /\ InitRest
    /\ account \in Accounts
    /\ \E left \in [1 .. account.n -> Leftovers] :
         /\ fsDirs = {CourseDir(c) : c \in {x \in 1 .. account.n : left[x] # "absent"}}
                     \cup (IF \E c \in 1 .. account.n : left[c] # "absent"
                           THEN {Root} ELSE {})
         /\ fsFiles = {Join(CourseDir(c), sanitize_filename(DisplayName(1))) :
                          c \in {x \in 1 .. account.n : left[x] = "partial"}}
    /\ sIn = <<>> /\ sOut = <<>> /\ sOut2 = <<>> /\ sanPc = "off"

Next ==
    \/ MainStart \/ MainNext \/ MainDone
    \/ GetCourse \/ SkipExisting \/ MakeCourseDir \/ GetFolders
    \/ GetFiles \/ GetSubfolders \/ EnterSubfolder \/ FolderDone
    \/ UnwindFolder \/ CatchFolderPass
    \/ PfSkip \/ PfSubmit \/ PfLoopEnd \/ PfJoin \/ PfRaiseExit \/ PfReturn
    \/ \E t \in tasks : TaskStart(t)
    \/ \E t \in tasks : TaskRun(t)
    \/ \E t \in tasks : TaskFinish(t)
    \/ GetModules \/ EnterModule \/ ModulesDone \/ GetItems \/ ItemStep \/ ItemsDone
    \/ GetFile \/ UnwindItem \/ CatchModule \/ CatchModulePass \/ UnwindCourse

Spec == Init /\ [][Next]_vars

\* The sanitizer on every string of at most MaxLen characters of Alphabet.
InitSan ==
    /\ pc = "off"
    /\ InitRest
    /\ account = [n |-> 0, shape |-> "none"]
    /\ fsDirs = {} /\ fsFiles = {}
    /\ sIn \in Strings
    /\ sOut = <<>> /\ sOut2 = <<>> /\ sanPc = "in"

NextSan == SanApply \/ SanAgain

SpecSan == InitSan /\ [][NextSan]_vars

\* ----------------------------------------------------------------- claims
\* C1: at every moment of a run at most MAX_THREADS download_file executions
\* are in flight, over all executors alive, whatever the batch and the folder.
ConcurrencyBounded == Cardinality(AllInFlight) <= MAX_THREADS

\* The pool is saturated and a further future waits in the queue.
PoolSaturated ==
    /\ Cardinality(AllInFlight) = MAX_THREADS
    /\ \E t \in tasks : t.st = "queued"

\* C2: outside process_files no future is pending or running, and every
\* unfinished future belongs to the executor of the running process_files
\* call: a later batch never overlaps an earlier one.
JoinBeforeReturn ==
    /\ pc \notin {"pf_loop", "pf_join", "pf_raise"} => tasks = {}
    /\ \A t \in tasks : t.pool = "cur"

\* process_files is returning after more executions than the pool has workers.
ReturnsAfterFullBatch ==
    /\ pc = "pf_ret"
    /\ bRuns > MAX_THREADS
    /\ bRuns = Len(pfFiles)
    /\ tasks = {}

\* The files of the running batch that have no url.
NoUrlCount == Cardinality({k \in 1 .. Len(pfFiles) : pfFiles[k].url = "none"})

\* C3: when process_files is left, a batch of M files with N url-less ones has
\* produced exactly N skip lines and M - N download_file executions.
BatchCountsExact ==
    pc = "pf_ret" =>
        /\ bSkips = NoUrlCount
        /\ bRuns = Len(pfFiles) - NoUrlCount

\* C4: a call that found its course directory on disk has, when it returns,
\* made no API call after get_course, called neither makedirs nor open,
\* submitted no download, and left the disk as it was.
SkipLeavesNoTrace ==
    (pc = "returned" /\ existed) =>
        /\ ~callApi
        /\ ~callWrite
        /\ ~callDl
        /\ fsDirs = dirsAtCall
        /\ fsFiles = filesAtCall
        /\ tasks = {}

\* A call returns for a course whose directory held a file of an earlier run.
SkippedPartialCourse ==
    /\ pc = "returned"
    /\ existed
    /\ Join(CourseDir(cur), sanitize_filename(DisplayName(1))) \in fsFiles

\* C5: when the folder walk is over and nothing but Unauthorized was raised
\* in it, every subfolder of a folder whose own listing calls succeeded has
\* its directory on disk and was walked, and unless its own listing was
\* refused its process_files call returned normally.
SiblingsSurviveUnauthorized ==
    (pc = "get_modules" /\ ~otherRaised) =>
        \A p \in visited \ unauthLogged :
            \A k \in 1 .. Len(Children(account.shape, p)) :
                LET sub == Children(account.shape, p)[k]
                IN  /\ sub \in visited
                    /\ DirOf(sub) \in fsDirs
                    /\ sub \in unauthLogged \/ sub \in batched

\* Folder A was refused, and its sibling B was walked and its file stored.
SiblingWalkedAfterRefusal ==
    /\ pc = "get_modules"
    /\ ~otherRaised
    /\ "A" \in unauthLogged
    /\ "R" \notin unauthLogged
    /\ "B" \in batched
    /\ Join(DirOf("B"), sanitize_filename(DisplayName(13))) \in fsFiles

\* C6: within one course a failure of the folder pass does not prevent the
\* module pass, an error in one module does not prevent the remaining
\* modules, and an error at one File item does not prevent the remaining
\* items of its module.
ErrorsStayLocal ==
    /\ (pc = "returned" /\ callApi) => modPass # "no"
    /\ (pc = "returned" /\ modPass = "listed") => mi > NumModules
    /\ (pc = "mod_loop" /\ mi > 1 /\ modListed) =>
           \A i \in 1 .. Len(Items(mi - 1)) :
               Items(mi - 1)[i].type = "File" => i \in modReached

\* The allow-list: word characters, hyphen, underscore, period, space.
AllowList == WordChars \cup {"-", "_", ".", " "}

\* C7: sanitize_filename(s) has the length of s, keeps every allow-listed
\* character in place, has "_" wherever s has another character, holds only
\* allow-listed characters, and sanitizing it again changes nothing.
SanitizeCorrect ==
    /\ sanPc \in {"once", "twice"} =>
           /\ Len(sOut) = Len(sIn)
           /\ \A i \in 1 .. Len(sIn) :
                  /\ sOut[i] \in AllowList
                  /\ sIn[i] \in AllowList => sOut[i] = sIn[i]
                  /\ sIn[i] \notin AllowList => sOut[i] = "_"
    /\ sanPc = "twice" => sOut2 = sOut

\* A string with two adjacent characters off the allow-list and one on it
\* has been sanitized twice.
SanitizedMixedString ==
    /\ sanPc = "twice"
    /\ \E i \in 1 .. Len(sIn) - 1 : sIn[i] \notin AllowList /\ sIn[i + 1] \notin AllowList
    /\ \E j \in 1 .. Len(sIn) : sIn[j] \in AllowList /\ sIn[j] # "_"

\* C8: the module pass starts no download for a file the folder walk of the
\* same course has already stored.
ModulePassSkipsCovered ==
    \A t \in tasks : (t.pool = "cur" /\ pfRet = "item") => WalkPaths(t.file) \cap fsFiles = {}

\* C8, amended: a File item whose file resolves is passed over only when the
\* file has no url; what the folder walk stored plays no part.
ItemSkippedOnlyWithoutUrl == itemUrl \in {"-", "none"}

\* The module pass is writing a file the folder walk has stored.
CoveredFileDownloadedAgain ==
    \E t \in tasks :
        /\ pfRet = "item"
        /\ t.pool = "cur"
        /\ t.st = "write"
        /\ WalkPaths(t.file) \cap fsFiles # {}

\* C9: no two download tasks running at the same time have the same
\* destination open for writing.
NoConcurrentWritesToOnePath ==
    \A t, u \in tasks : (t # u /\ t.st = "write" /\ u.st = "write") => t.path # u.path

\* C10: no exception leaves download_course_files, and when __main__ ends
\* the function has been called for every enumerated course id.
NoExceptionEscapes ==
    /\ pc # "crashed"
    /\ pc = "done" => called = 1 .. account.n

\* The run ended; the course processed first failed in get_course and a later
\* one was processed and has a file on disk that was not there before.
LaterCourseProcessedAfterFailure ==
    /\ pc = "done"
    /\ account.n > 1
    /\ account.n \in caught
    /\ 1 \notin caught
    /\ callDl
    /\ fsFiles # filesAtCall

====
